---------------------------- MODULE Spec2Model ----------------------------
(***************************************************************************)
(* A model of generate_goat_inputs.py: the interactive generator of ORCA   *)
(* GOAT job files and sbatch scripts, and of the bash program it writes    *)
(* into submit_all_jobs.sh.                                                *)
(*                                                                         *)
(* Python strings are sequences of one-character strings, so that strip,   *)
(* lower, replace, split, int and the f-string concatenations are computed *)
(* as the interpreter computes them.                                       *)
(***************************************************************************)
EXTENDS Integers, Sequences, FiniteSets, TLC

(***************************************************************************)
(* Bounds of the model.                                                    *)
(***************************************************************************)
\* The longest selection line has MaxTokens whitespace-separated tokens.
MaxTokens == 2
\* The xyzs directory holds at most MaxFiles artifacts.
MaxFiles == 2
\* The working directory of submit_all_jobs.sh holds at most MaxScripts entries.
MaxScripts == 2

(***************************************************************************)
(* String literals of the source.                                          *)
(***************************************************************************)
S_GOAT == <<"G", "O", "A", "T">>
S_GOAT_ENTROPY == <<"G", "O", "A", "T", "-", "E", "N", "T", "R", "O", "P", "Y">>
S_GOAT_EXPLORE == <<"G", "O", "A", "T", "-", "E", "X", "P", "L", "O", "R", "E">>
S_GOAT_DIVERSITY == <<"G", "O", "A", "T", "-", "D", "I", "V", "E", "R", "S", "I", "T", "Y">>
S_true == <<"t", "r", "u", "e">>
S_false == <<"f", "a", "l", "s", "e">>
S_all == <<"a", "l", "l">>
S_y == <<"y">>
S_yes == <<"y", "e", "s">>
S_n == <<"n">>
S_no == <<"n", "o">>
S_xyzs == <<"x", "y", "z", "s">>
S_dot_xyz == <<".", "x", "y", "z">>
S_dot_inp == <<".", "i", "n", "p">>
S_dot_sh == <<".", "s", "h">>
S_dot_out == <<".", "o", "u", "t">>
S_run_ == <<"r", "u", "n", "_">>
S_submit_all_jobs == <<"s", "u", "b", "m", "i", "t", "_", "a", "l", "l", "_", "j", "o", "b", "s", ".", "s", "h">>
S_CPCM_open == <<"C", "P", "C", "M", "(">>
S_close == <<")">>
S_run_glob == <<"r", "u", "n", "_", "*", ".", "s", "h">>
S_Submitted == <<"S", "u", "b", "m", "i", "t", "t", "e", "d", " ", "b", "a", "t", "c", "h", " ", "j", "o", "b", " ">>

\* The defaults of the prompt_with_default calls of main.
D_METHOD == <<"X", "T", "B", "2">>
D_solvent_name == <<"W", "a", "t", "e", "r">>
D_opt_level == <<"N", "O", "R", "M", "A", "L", "O", "P", "T">>
D_NPROCS == <<"2", "0", "0">>
D_NWORKERS == <<"2", "5">>
D_MAXCORESOPT == <<"3", "2">>
D_MAXITER == <<"2", "5", "6">>
D_MINGLOBALITER == <<"5">>
D_MAXEN == <<"1", "2", ".", "0">>
D_CONFTEMP == <<"2", "9", "8", ".", "1", "5">>
D_MINDELS == <<"0", ".", "1">>
D_CONFDEGEN == <<"A", "U", "T", "O">>
D_GFNUPHILL_METHOD == <<"g", "f", "n", "2", "x", "t", "b">>
D_GEOM_MAXITER == <<"5", "0", "0">>
D_GEOM_TOLE == <<"5", "e", "-", "6">>
D_GEOM_TOLRMSG == <<"1", "e", "-", "4">>
D_GEOM_TOLMAXG == <<"3", "e", "-", "4">>
D_CHARGE == <<"0">>
D_MULT == <<"1">>
D_NODES == <<"1">>
D_WALLTIME == <<"9", "6", ":", "0", "0", ":", "0", "0">>
D_MEMORY == <<"4", "0", "0", "G">>
D_MODULE_LOAD == <<"O", "p", "e", "n", "M", "P", "I", "/", "4", ".", "1", ".", "6", "-", "G", "C", "C", "-", "1", "3", ".", "2", ".", "0", " ", "O", "R", "C", "A", "/", "6", ".", "1", ".", "0">>
D_ORCA_PATH == <<"/", "p", "a", "t", "h", "/", "t", "o", "/", "o", "r", "c", "a">>
D_RSH_COMMAND == <<"s", "h">>
D_output_dir == <<"g", "o", "a", "t", "_", "i", "n", "p", "u", "t", "s">>

(***************************************************************************)
(* str methods, computed on sequences of characters.                       *)
(***************************************************************************)
\* The characters of the model in code point order (sorted() compares by it).
Alphabet ==
  <<"\t", " ", "(", ")", "*", "+", "-", ".", "/",
    "0", "1", "2", "3", "4", "5", "6", "7", "8", "9", ":",
    "A", "B", "C", "D", "E", "F", "G", "H", "I", "J", "K", "L", "M",
    "N", "O", "P", "Q", "R", "S", "T", "U", "V", "W", "X", "Y", "Z", "_",
    "a", "b", "c", "d", "e", "f", "g", "h", "i", "j", "k", "l", "m",
    "n", "o", "p", "q", "r", "s", "t", "u", "v", "w", "x", "y", "z">>

Ord(c) == CHOOSE i \in 1..Len(Alphabet) : Alphabet[i] = c

UpperLetters == SubSeq(Alphabet, 21, 46)
LowerLetters == SubSeq(Alphabet, 48, 73)
Digits == SubSeq(Alphabet, 10, 19)

IsSpace(c) == c \in {" ", "\t"}
IsDigit(c) == \E i \in 1..Len(Digits) : Digits[i] = c
DigitVal(c) == (CHOOSE i \in 1..Len(Digits) : Digits[i] = c) - 1

\* str.strip()
RECURSIVE LStrip(_)
LStrip(s) == IF s # <<>> /\ IsSpace(Head(s)) THEN LStrip(Tail(s)) ELSE s
RECURSIVE RStrip(_)
RStrip(s) ==
  IF s # <<>> /\ IsSpace(s[Len(s)]) THEN RStrip(SubSeq(s, 1, Len(s) - 1)) ELSE s
Strip(s) == RStrip(LStrip(s))

\* str.lower()
LowerChar(c) ==
  IF \E i \in 1..26 : UpperLetters[i] = c
    THEN LowerLetters[CHOOSE i \in 1..26 : UpperLetters[i] = c]
    ELSE c
Lower(s) == [i \in 1..Len(s) |-> LowerChar(s[i])]

\* str.replace(old, new) for one-character old and new
Replace(s, old, new) == [i \in 1..Len(s) |-> IF s[i] = old THEN new ELSE s[i]]

\* str.split(): the maximal runs of non-whitespace characters
RECURSIVE SplitFrom(_, _, _)
SplitFrom(s, cur, acc) ==
  IF s = <<>>
    THEN IF cur = <<>> THEN acc ELSE Append(acc, cur)
    ELSE IF IsSpace(Head(s))
      THEN SplitFrom(Tail(s), <<>>, IF cur = <<>> THEN acc ELSE Append(acc, cur))
      ELSE SplitFrom(Tail(s), Append(cur, Head(s)), acc)
Split(s) == SplitFrom(s, <<>>, <<>>)

\* int(str): an optional sign, then digits that single underscores may separate.
IntBody(t) == IF t # <<>> /\ Head(t) \in {"+", "-"} THEN Tail(t) ELSE t
IntOk(t) ==
  LET b == IntBody(t) IN
    /\ b # <<>>
    /\ \A i \in 1..Len(b) : IsDigit(b[i]) \/ b[i] = "_"
    /\ IsDigit(b[1]) /\ IsDigit(b[Len(b)])
    /\ \A i \in 1..(Len(b) - 1) : ~(b[i] = "_" /\ b[i + 1] = "_")
RECURSIVE DigitsVal(_, _)
DigitsVal(b, acc) ==
  IF b = <<>> THEN acc
  ELSE DigitsVal(Tail(b), IF Head(b) = "_" THEN acc ELSE 10 * acc + DigitVal(Head(b)))
IntVal(t) ==
  IF t # <<>> /\ Head(t) = "-" THEN 0 - DigitsVal(IntBody(t), 0)
  ELSE DigitsVal(IntBody(t), 0)

\* str(int): the decimal digits, after a minus sign when negative.
RECURSIVE NatStr(_)
NatStr(n) ==
  LET digit == <<"0", "1", "2", "3", "4", "5", "6", "7", "8", "9">>[(n % 10) + 1]
  IN IF n < 10 THEN <<digit>> ELSE NatStr(n \div 10) \o <<digit>>
IntStr(n) == IF n < 0 THEN <<"-">> \o NatStr(0 - n) ELSE NatStr(n)

\* The order of str (and of PosixPath, whose parts are compared as str).
RECURSIVE StrLess(_, _)
StrLess(a, b) ==
  IF b = <<>> THEN FALSE
  ELSE IF a = <<>> THEN TRUE
  ELSE IF Head(a) = Head(b) THEN StrLess(Tail(a), Tail(b))
  ELSE Ord(Head(a)) < Ord(Head(b))

EndsWith(s, suf) ==
  Len(s) >= Len(suf) /\ SubSeq(s, Len(s) - Len(suf) + 1, Len(s)) = suf


\* f-string and Path concatenations
PathJoin(dir, name) == dir \o <<"/">> \o name

\* PurePath.name: the part after the last separator
RECURSIVE BaseName(_)
BaseName(path) ==
  IF \E i \in 1..Len(path) : path[i] = "/"
    THEN BaseName(SubSeq(path, (CHOOSE i \in 1..Len(path) : path[i] = "/") + 1, Len(path)))
    ELSE path

\* PurePath.stem: the name without its last suffix; a name whose last dot is
\* its first or its last character has no suffix.
Stem(path) ==
  LET name == BaseName(path)
      dots == {i \in 1..Len(name) : name[i] = "."}
  IN IF dots = {} THEN name
     ELSE LET j == CHOOSE i \in dots : \A k \in dots : k <= i
          IN IF 1 < j /\ j < Len(name) THEN SubSeq(name, 1, j - 1) ELSE name

(***************************************************************************)
(* The console helpers.                                                    *)
(***************************************************************************)
\* One printed message: print_info / print_success / print_warning /
\* print_error put their tag before the text, print puts none.
Msg(sev, text, arg) == [sev |-> sev, text |-> text, arg |-> arg]
print_info(text, arg) == Msg("INFO", text, arg)
print_success(text, arg) == Msg("SUCCESS", text, arg)
print_warning(text, arg) == Msg("WARNING", text, arg)
print_error(text, arg) == Msg("ERROR", text, arg)
print_plain(text) == Msg("", text, <<>>)

\* prompt_with_default: the stripped line, or the default when that is empty
prompt_with_default(line, default) ==
  LET user_input == Strip(line) IN IF user_input # <<>> THEN user_input ELSE default

\* prompt_yes_no without its loop: an answer that is neither yes nor no counts
\* as no.
prompt_yes_no_ElseNo(line, default) ==
  LET stripped == Lower(Strip(line))
      response == IF stripped # <<>> THEN stripped ELSE default
  IN IF response \in {S_y, S_yes} THEN "yes" ELSE "no"

\* One round of the loop of prompt_yes_no: "yes", "no", or "again" when the
\* answer is none of y, yes, n, no.
prompt_yes_no(line, default) ==
  LET stripped == Lower(Strip(line))
      response == IF stripped # <<>> THEN stripped ELSE default
  IN IF response \in {S_y, S_yes} THEN "yes"
     ELSE IF response \in {S_n, S_no} THEN "no"
     ELSE "again"

\* The dictionary variants of select_goat_variant.
variants ==
  (<<"1">> :> S_GOAT) @@ (<<"2">> :> S_GOAT_ENTROPY) @@
  (<<"3">> :> S_GOAT_EXPLORE) @@ (<<"4">> :> S_GOAT_DIVERSITY)

\* select_goat_variant without its loop: an answer outside the menu selects
\* the first mode.
select_goat_variant_Fallback(line) ==
  LET choice == Strip(line) IN
    [returns |-> TRUE,
     value |-> IF choice \in DOMAIN variants THEN variants[choice] ELSE S_GOAT,
     prints |-> <<>>]

\* One round of the loop of select_goat_variant on the line read: it returns
\* variants[choice], or prints an error and goes round again.
select_goat_variant(line) ==
  LET choice == Strip(line) IN
    IF choice \in DOMAIN variants
      THEN [returns |-> TRUE, value |-> variants[choice], prints |-> <<>>]
      ELSE [returns |-> FALSE, value |-> <<>>,
            prints |-> <<print_error("Invalid choice. Please enter 1-4.", <<>>)>>]

\* goat_type_lower without the replace('-', '_').
GoatTypeLower_NoReplace(goat_type) == Lower(goat_type)

\* goat_type_lower
GoatTypeLower(goat_type) == Replace(Lower(goat_type), "-", "_")


(***************************************************************************)
(* The state.                                                              *)
(***************************************************************************)
VARIABLES
  xyzs_exists,     \* whether the directory xyzs exists
  xyzs_entries,    \* the names of the entries of xyzs
  text_line,       \* the line the user types at the free-text prompts
  pc,              \* the statement of main the process is at
  xyz_files,       \* main's xyz_files
  selected_files,  \* main's selected_files
  sel_all,         \* history: the selection line spelled "all"
  config,          \* main's config
  opt_level,       \* main's opt_level, <<>> before line 357 has run
  output_dir,      \* main's output_dir
  idx,             \* the position of the loop over selected_files (from 1)
  last_input,      \* the line the most recent step read from standard input
  out,             \* the messages the most recent step printed
  dirs,            \* the directories the process created
  writes,          \* the files the process wrote, in order
  exit_status,     \* <<>> while the process runs, then <<its exit status>>
  interrupted,     \* history: a SIGINT (Ctrl-C) was delivered to the process
  spc,             \* the statement of submit_all_jobs.sh the shell is at
  cwd,             \* the working directory of submit_all_jobs.sh: name -> kind
  sbatch_scripts,  \* the array sbatch_scripts of submit_all_jobs.sh
  job_ids,         \* the array job_ids
  sidx,            \* the position of the for loop of submit_all_jobs.sh (from 1)
  calls,           \* the sbatch invocations, in order: argument and answer
  sout,            \* the lines submit_all_jobs.sh echoed
  sstatus          \* <<>>, then <<the exit status of submit_all_jobs.sh>>

envVars == <<xyzs_exists, xyzs_entries, text_line>>
mainVars == <<pc, xyz_files, selected_files, sel_all, config, opt_level, output_dir,
              idx, last_input, out, dirs, writes, exit_status, interrupted>>
scriptVars == <<spc, cwd, sbatch_scripts, job_ids, sidx, calls, sout, sstatus>>
vars == <<envVars, mainVars, scriptVars>>

(***************************************************************************)
(* The inputs of a run.                                                    *)
(***************************************************************************)
\* The names an entry of xyzs may have: two artifacts, and a file that is
\* none.
ArtifactNames ==
  { <<"a", ".", "x", "y", "z">>, <<"a", ".", "b", ".", "x", "y", "z">> }
OtherNames == { <<"n", ".", "t", "x", "t">> }
DirNames == ArtifactNames \cup OtherNames
\* xyzs is empty, or holds at most MaxFiles artifacts beside the other file.
Listings ==
  {{}} \cup {A \cup OtherNames : A \in {X \in SUBSET ArtifactNames : Cardinality(X) <= MaxFiles}}

\* The tokens of a selection line, and the lines made of at most MaxTokens.
SelectionTokens ==
  { <<"1">>, <<"2">>, <<"3">>, <<"0">>, <<"9", "9">>, <<"x">>, <<"+", "1">> }
RECURSIVE JoinSp(_)
JoinSp(ts) ==
  IF ts = <<>> THEN <<>>
  ELSE IF Len(ts) = 1 THEN ts[1]
  ELSE ts[1] \o <<" ">> \o JoinSp(Tail(ts))
\* Lines that spell "all", in several letter cases and with blanks around.
AllLines ==
  { <<"a", "l", "l">>, <<"A", "L", "L">>, <<" ", "A", "l", "l", " ">>,
    <<"a", "L", "l", "\t">> }
SelectionLines ==
  {JoinSp(ts) : ts \in UNION {[1..n -> SelectionTokens] : n \in 0..MaxTokens}}
    \cup AllLines
    \cup { <<" ", " ">>, <<" ", "2", "\t", " ", "1", " ">>, <<"a", "l">>,
           <<"1", "_", "0">>, <<"-", "1">>, <<"a", "l", "l", " ", "1">> }

\* The lines typed at the menu of select_goat_variant.
MenuLines ==
  { <<"1">>, <<" ", "2", " ">>, <<"3">>, <<"4", "\t">>, <<>>, <<" ">>, <<"0">>,
    <<"5">>, <<"x">>, <<"1", "2">>, <<"G", "O", "A", "T">>, <<"+", "1">> }

\* The lines typed at a yes/no question.
YesNoLines ==
  { <<>>, <<" ", "Y", "e", "s", " ">>, <<"N", "O", "\t">>, <<"y", "e">> }

\* The lines typed at a free-text prompt.  In one run the user types the same
\* line at every free-text prompt: Enter alone, or a text with blanks around
\* it.
TextLines == { <<>>, <<" ", "v", "\t">> }

(***************************************************************************)
(* main: the artifacts.                                                    *)
(***************************************************************************)
\* xyzs_dir.glob("*.xyz"): the paths of the entries whose name ends in .xyz
Glob(entries) == {PathJoin(S_xyzs, n) : n \in {e \in entries : EndsWith(e, S_dot_xyz)}}

\* The glob left in an order that is not the sorted one: here, descending.
RECURSIVE Sorted_Desc(_)
Sorted_Desc(S) ==
  IF S = {} THEN <<>>
  ELSE LET m == CHOOSE x \in S : \A y \in S \ {x} : StrLess(y, x)
       IN <<m>> \o Sorted_Desc(S \ {m})

\* sorted(...)
RECURSIVE Sorted(_)
Sorted(S) ==
  IF S = {} THEN <<>>
  ELSE LET m == CHOOSE x \in S : \A y \in S \ {x} : StrLess(x, y)
       IN <<m>> \o Sorted(S \ {m})

\* SelectByIndex with the range test 0 <= idx: index 0 passes, and
\* xyz_files[0 - 1] is the last file.
RECURSIVE SelectByIndex_ZeroBased(_, _, _)
SelectByIndex_ZeroBased(tokens, files, acc) ==
  IF tokens = <<>> THEN acc
  ELSE LET idx_str == Head(tokens) IN
    SelectByIndex_ZeroBased(Tail(tokens), files,
      IF IntOk(idx_str)
        THEN IF 0 <= IntVal(idx_str) /\ IntVal(idx_str) <= Len(files)
          THEN [acc EXCEPT !.files =
                  Append(@, files[IF IntVal(idx_str) = 0 THEN Len(files)
                                  ELSE IntVal(idx_str)])]
          ELSE [acc EXCEPT !.warnings =
                  Append(@, print_warning("Invalid index: (skipped)",
                                          IntStr(IntVal(idx_str))))]
        ELSE [acc EXCEPT !.warnings =
                Append(@, print_warning("Invalid input: (skipped)", idx_str))])

\* The loop over selection.split(): the files chosen and the warnings printed.
RECURSIVE SelectByIndex(_, _, _)
SelectByIndex(tokens, files, acc) ==
  IF tokens = <<>> THEN acc
  ELSE LET idx_str == Head(tokens) IN
    SelectByIndex(Tail(tokens), files,
      IF IntOk(idx_str)
        THEN IF 1 <= IntVal(idx_str) /\ IntVal(idx_str) <= Len(files)
          THEN [acc EXCEPT !.files = Append(@, files[IntVal(idx_str)])]
          ELSE [acc EXCEPT !.warnings =
                  Append(@, print_warning("Invalid index: (skipped)",
                                          IntStr(IntVal(idx_str))))]
        ELSE [acc EXCEPT !.warnings =
                Append(@, print_warning("Invalid input: (skipped)", idx_str))])

\* The selection of main, from the line read.
Select(line, files) ==
  LET selection == Strip(line) IN
    IF Lower(selection) = S_all
      THEN [files |-> files, warnings |-> <<>>]
      ELSE SelectByIndex(Split(selection), files, [files |-> <<>>, warnings |-> <<>>])

(***************************************************************************)
(* main: the configuration.                                                *)
(***************************************************************************)
EmptyConfig == [k \in {} |-> <<>>]
\* config[k] = v
SetItem(cfg, k, v) == (k :> v) @@ cfg
\* config.get(k) tested for truth instead of compared with 'true': the string
\* 'false' is not empty, so it passes.
GetIs_Truthy(cfg, k, v) == k \in DOMAIN cfg /\ cfg[k] # <<>>

\* config.get(k) == v
GetIs(cfg, k, v) == k \in DOMAIN cfg /\ cfg[k] = v

\* The defaults of the prompt_with_default calls that store their answer in
\* config[p].
Default(p) ==
  CASE p = "METHOD" -> D_METHOD
    [] p = "NPROCS" -> D_NPROCS
    [] p = "NWORKERS" -> D_NWORKERS
    [] p = "MAXCORESOPT" -> D_MAXCORESOPT
    [] p = "MAXITER" -> D_MAXITER
    [] p = "MINGLOBALITER" -> D_MINGLOBALITER
    [] p = "MAXEN" -> D_MAXEN
    [] p = "CONFTEMP" -> D_CONFTEMP
    [] p = "MINDELS" -> D_MINDELS
    [] p = "CONFDEGEN" -> D_CONFDEGEN
    [] p = "GFNUPHILL_METHOD" -> D_GFNUPHILL_METHOD
    [] p = "GEOM_MAXITER" -> D_GEOM_MAXITER
    [] p = "GEOM_TOLE" -> D_GEOM_TOLE
    [] p = "GEOM_TOLRMSG" -> D_GEOM_TOLRMSG
    [] p = "GEOM_TOLMAXG" -> D_GEOM_TOLMAXG
    [] p = "CHARGE" -> D_CHARGE
    [] p = "MULT" -> D_MULT
    [] p = "NODES" -> D_NODES
    [] p = "WALLTIME" -> D_WALLTIME
    [] p = "MEMORY" -> D_MEMORY
    [] p = "PARTITION" -> <<>>
    [] p = "MODULE_LOAD" -> D_MODULE_LOAD
    [] p = "ORCA_PATH" -> D_ORCA_PATH
    [] p = "RSH_COMMAND" -> D_RSH_COMMAND

\* The keys p of the statements config[p] = prompt_with_default(...) of main.
ConfigKeys ==
  {"METHOD", "NPROCS", "NWORKERS", "MAXCORESOPT", "MAXITER", "MINGLOBALITER", "MAXEN",
   "CONFTEMP", "MINDELS", "CONFDEGEN", "GFNUPHILL_METHOD", "GEOM_MAXITER", "GEOM_TOLE",
   "GEOM_TOLRMSG", "GEOM_TOLMAXG", "CHARGE", "MULT", "NODES", "WALLTIME", "MEMORY",
   "PARTITION", "MODULE_LOAD", "ORCA_PATH", "RSH_COMMAND"}

\* The prompt_yes_no calls that store 'true' or 'false' in config[p], and
\* their defaults.
FlagKeys ==
  {"KEEPWORKERDATA", "FREEZEBONDS", "FREEZEANGLES", "FREEZE_AMIDES", "FREEZE_CISTRANS"}
FlagDefault(p) == IF p = "KEEPWORKERDATA" THEN S_n ELSE S_y

\* The statements at which main waits for a line of standard input: each is
\* one call of input().
PromptPcs ==
  ConfigKeys \cup FlagKeys \cup
    {"select", "variant", "solvation", "solvent_name", "opt_level",
     "additional_keywords", "USE_GFNUPHILL", "output_dir"}

\* The two mode tests of main that follow the common parameters.
AfterEntropy(cfg) ==
  IF cfg["GOAT_TYPE"] = S_GOAT_EXPLORE THEN "FREEZEBONDS" ELSE "FREEZE_AMIDES"
\* AfterCommon with the entropy test never true (the mode misspelt), so that
\* MINDELS and CONFDEGEN are never asked.
AfterCommon_NoEntropy(cfg) == AfterEntropy(cfg)
AfterCommon(cfg) ==
  IF cfg["GOAT_TYPE"] = S_GOAT_ENTROPY THEN "MINDELS" ELSE AfterEntropy(cfg)

\* The prompt that follows the prompt p, once p is answered.
NextPc(p, cfg) ==
  CASE p = "variant" -> "METHOD"
    [] p = "METHOD" -> "solvation"
    [] p = "solvent_name" -> "opt_level"
    [] p = "opt_level" -> "additional_keywords"
    [] p = "additional_keywords" -> "NPROCS"
    [] p = "NPROCS" -> "NWORKERS"
    [] p = "NWORKERS" -> "MAXCORESOPT"
    [] p = "MAXCORESOPT" -> "MAXITER"
    [] p = "MAXITER" -> "MINGLOBALITER"
    [] p = "MINGLOBALITER" -> "MAXEN"
    [] p = "MAXEN" -> "CONFTEMP"
    [] p = "CONFTEMP" -> "KEEPWORKERDATA"
    [] p = "KEEPWORKERDATA" -> AfterCommon(cfg)
    [] p = "MINDELS" -> "CONFDEGEN"
    [] p = "CONFDEGEN" -> AfterEntropy(cfg)
    [] p = "FREEZEBONDS" -> "FREEZEANGLES"
    [] p = "FREEZEANGLES" -> "FREEZE_AMIDES"
    [] p = "FREEZE_AMIDES" -> "FREEZE_CISTRANS"
    [] p = "FREEZE_CISTRANS" -> "USE_GFNUPHILL"
    [] p = "GFNUPHILL_METHOD" -> "GEOM_MAXITER"
    [] p = "GEOM_MAXITER" -> "GEOM_TOLE"
    [] p = "GEOM_TOLE" -> "GEOM_TOLRMSG"
    [] p = "GEOM_TOLRMSG" -> "GEOM_TOLMAXG"
    [] p = "GEOM_TOLMAXG" -> "CHARGE"
    [] p = "CHARGE" -> "MULT"
    [] p = "MULT" -> "NODES"
    [] p = "NODES" -> "WALLTIME"
    [] p = "WALLTIME" -> "MEMORY"
    [] p = "MEMORY" -> "PARTITION"
    [] p = "PARTITION" -> "MODULE_LOAD"
    [] p = "MODULE_LOAD" -> "ORCA_PATH"
    [] p = "ORCA_PATH" -> "RSH_COMMAND"
    [] p = "RSH_COMMAND" -> "output_dir"

\* The print_info calls main passes on its way to the prompt p from the
\* statement before it: the heading of the part p opens.
Heading(p) ==
  CASE p = "select" -> <<print_info("Available XYZ files in xyzs/:", <<>>),
                         print_info("Select XYZ files to process:", <<>>)>>
    [] p = "variant" -> <<print_info("Select GOAT variant:", <<>>)>>
    [] p = "METHOD" -> <<print_info("=== Computational Method Settings ===", <<>>)>>
    [] p = "solvation" -> <<print_info("=== Solvent Settings ===", <<>>)>>
    [] p = "opt_level" -> <<print_info("=== Optimization Level ===", <<>>)>>
    [] p = "NPROCS" -> <<print_info("=== Parallelization Settings ===", <<>>)>>
    [] p = "MAXITER" -> <<print_info("=== GOAT Algorithm Parameters ===", <<>>)>>
    [] p = "MINDELS" -> <<print_info("=== GOAT-ENTROPY Specific Parameters ===", <<>>)>>
    [] p = "FREEZEBONDS" -> <<print_info("=== GOAT-EXPLORE Specific Parameters ===", <<>>)>>
    [] p = "FREEZE_AMIDES" ->
         <<print_info("=== Cyclic Peptide Specific Constraints ===", <<>>)>>
    [] p = "USE_GFNUPHILL" -> <<print_info("=== Uphill Step Optimization ===", <<>>)>>
    [] p = "GEOM_MAXITER" ->
         <<print_info("=== Geometry Optimization Parameters ===", <<>>)>>
    [] p = "CHARGE" -> <<print_info("=== Molecular Properties ===", <<>>)>>
    [] p = "NODES" -> <<print_info("=== SLURM Job Settings ===", <<>>)>>
    [] OTHER -> <<>>

(***************************************************************************)
(* The renderers.  A line of a rendered file is a keyword and its          *)
(* arguments; an argument is read from config (k) or is a literal (lit).   *)
(***************************************************************************)
K(key) == [k |-> key]
L(text) == [lit |-> text]
T(kw, args) == [kw |-> kw, args |-> args]

\* The write calls of generate_inp_file, in order.
InpTemplate(xyz_file, cfg) ==
  LET base_name == Stem(xyz_file) IN
    << T("# ORCA Input File for", <<K("GOAT_TYPE"), L(base_name)>>),
       T("# Generated for cyclic peptide conformational search", <<>>),
       T("# Objective", <<>>),
       T("# Configured for CPU cores", <<K("NPROCS")>>),
       T("!", <<K("GOAT_TYPE"), K("METHOD"), K("SOLVENT_KEYWORD"), K("EXTRA_KEYWORDS")>>),
       T("%pal", <<>>),
       T("nprocs", <<K("NPROCS")>>),
       T("end", <<>>),
       T("%goat", <<>>),
       T("NWORKERS", <<K("NWORKERS")>>),
       T("MAXCORESOPT", <<K("MAXCORESOPT")>>),
       T("MAXITER", <<K("MAXITER")>>),
       T("MINGLOBALITER", <<K("MINGLOBALITER")>>),
       T("MAXEN", <<K("MAXEN")>>),
       T("KEEPWORKERDATA", <<K("KEEPWORKERDATA")>>),
       T("CONFTEMP", <<K("CONFTEMP")>> ) >>
    \o (IF cfg["GOAT_TYPE"] = S_GOAT_ENTROPY
          THEN << T("MAXENTROPY", <<L(S_true)>>),
                  T("MINDELS", <<K("MINDELS")>>),
                  T("CONFDEGEN", <<K("CONFDEGEN")>>) >>
          ELSE <<>>)
    \o (IF cfg["GOAT_TYPE"] = S_GOAT_EXPLORE
          THEN << T("FREEZEBONDS", <<K("FREEZEBONDS")>>),
                  T("FREEZEANGLES", <<K("FREEZEANGLES")>>) >>
          ELSE <<>>)
    \o (IF GetIs(cfg, "FREEZE_AMIDES", S_true)
          THEN << T("FREEZEAMIDES", <<L(S_true)>>) >> ELSE <<>>)
    \o (IF GetIs(cfg, "FREEZE_CISTRANS", S_true)
          THEN << T("FREEZECISTRANS", <<L(S_true)>>) >> ELSE <<>>)
    \o (IF GetIs(cfg, "USE_GFNUPHILL", S_true)
          THEN << T("GFNUPHILL", <<K("GFNUPHILL_METHOD")>>) >> ELSE <<>>)
    \o << T("end", <<>>),
          T("%geom", <<>>),
          T("MaxIter", <<K("GEOM_MAXITER")>>),
          T("TolE", <<K("GEOM_TOLE")>>),
          T("TolRMSG", <<K("GEOM_TOLRMSG")>>),
          T("TolMaxG", <<K("GEOM_TOLMAXG")>>),
          T("end", <<>>),
          T("* xyzfile", <<K("CHARGE"), K("MULT"), L(xyz_file)>>) >>

\* The name generate_inp_file gives its file.
InpName(xyz_file, cfg) ==
  Stem(xyz_file) \o <<"_">> \o GoatTypeLower(cfg["GOAT_TYPE"]) \o S_dot_inp

\* The name generate_sbatch_script gives its file.
SbatchName(xyz_file, cfg) ==
  S_run_ \o Stem(xyz_file) \o <<"_">> \o GoatTypeLower(cfg["GOAT_TYPE"]) \o S_dot_sh

\* The write calls of generate_sbatch_script, in order.
SbatchTemplate(xyz_file, cfg) ==
  LET base_name == Stem(xyz_file)
      goat_type_lower == GoatTypeLower(cfg["GOAT_TYPE"])
      inp_file == base_name \o <<"_">> \o goat_type_lower \o S_dot_inp
  IN << T("#!/bin/bash", <<>>),
        T("#SBATCH --job-name=", <<L(base_name \o <<"_">> \o goat_type_lower)>>),
        T("#SBATCH --nodes=", <<K("NODES")>>),
        T("#SBATCH --ntasks=", <<K("NPROCS")>>),
        T("#SBATCH --time=", <<K("WALLTIME")>>),
        T("#SBATCH --mem=", <<K("MEMORY")>>),
        T("#SBATCH --output=slurm-%j.out", <<>>) >>
     \o (IF "PARTITION" \in DOMAIN cfg /\ cfg["PARTITION"] # <<>>
           THEN << T("#SBATCH --partition=", <<K("PARTITION")>>) >> ELSE <<>>)
     \o << T("module purge", <<>>),
           T("module load", <<K("MODULE_LOAD")>>),
           T("export RSH_COMMAND=", <<K("RSH_COMMAND")>>),
           T("echo job information", <<>>),
           T("run >", <<K("ORCA_PATH"), L(inp_file),
                        L(base_name \o <<"_">> \o goat_type_lower \o S_dot_out)>>),
           T("echo completion information", <<>>) >>

\* The lines written before a read of a key config lacks raises KeyError:
\* all of them when no read fails.
Complete(template, cfg) ==
  \A i \in 1..Len(template) : \A j \in 1..Len(template[i].args) :
    "k" \in DOMAIN template[i].args[j] => template[i].args[j].k \in DOMAIN cfg
Written(template, cfg) ==
  LET bad == {i \in 1..Len(template) : \E j \in 1..Len(template[i].args) :
                "k" \in DOMAIN template[i].args[j]
                  /\ template[i].args[j].k \notin DOMAIN cfg}
      n == IF bad = {} THEN Len(template)
           ELSE (CHOOSE i \in bad : \A b \in bad : i <= b) - 1
  IN [i \in 1..n |->
        [kw |-> template[i].kw,
         args |-> [j \in 1..Len(template[i].args) |->
                     IF "k" \in DOMAIN template[i].args[j]
                       THEN cfg[template[i].args[j].k]
                       ELSE template[i].args[j].lit]]]

\* One file on disk: its path, its lines, and whether chmod 0o755 was applied.
File(path, lines, executable) ==
  [path |-> path, lines |-> lines, executable |-> executable]


\* The text generate_submit_all_script writes: one literal, the same in every
\* run (its program is modelled below, from spc on).
SubmitAllLines == << T("submit_all_jobs.sh", <<>>) >>

(***************************************************************************)
(* The top level: how the process ends.                                    *)
(***************************************************************************)
\* The try statement around main(): what it prints and the exit status, for
\* the exception main raised.  SystemExit is no Exception: it passes both
\* except clauses and the interpreter exits with its code.
Handler(exc, code) ==
  IF exc = "KeyboardInterrupt"
    THEN [status |-> 1,
          prints |-> <<print_warning("Script interrupted by user", <<>>)>>]
  ELSE IF exc = "SystemExit"
    THEN [status |-> code, prints |-> <<>>]
  ELSE [status |-> 1, prints |-> <<print_error("An error occurred:", <<>>)>>]

\* A KeyboardInterrupt that no except clause catches: the SIGINT arrives at
\* line 504 before the try is entered, or while SystemExit passes the clauses
\* of lines 506 and 510, or inside the clause that caught exc (lines 507-509,
\* 511-513), before its message or after it.  The interpreter writes the
\* traceback to standard error and ends the process by SIGINT: the status a
\* shell reports is 128 + 2 (the return code of a wait is -2).
Uncaught(exc, code) ==
  {[status |-> 130, prints |-> p] : p \in { <<>>, Handler(exc, code).prints }}

\* The process ends: its variables are gone, what it wrote stays.
Exit(status, printed, sigint) ==
  /\ pc' = "exited"
  /\ exit_status' = <<status>>
  /\ interrupted' = sigint
  /\ out' = printed
  /\ xyz_files' = <<>>
  /\ selected_files' = <<>>
  /\ sel_all' = FALSE
  /\ config' = EmptyConfig
  /\ opt_level' = <<>>
  /\ output_dir' = <<>>
  /\ idx' = 0

\* main raises exc, after the step printed `printed`: the try statement ends
\* the process as Handler says, or a SIGINT that arrives meanwhile is left
\* uncaught.
Raise(exc, code, printed) ==
  \/ Exit(Handler(exc, code).status, printed \o Handler(exc, code).prints,
          exc = "KeyboardInterrupt")
  \/ \E end \in Uncaught(exc, code) : Exit(end.status, printed \o end.prints, TRUE)

(***************************************************************************)
(* Init: the process starts; xyzs may exist or not.                        *)
(***************************************************************************)
ScriptIdle ==
  /\ spc = "idle"
  /\ cwd = [n \in {} |-> ""]
  /\ sbatch_scripts = <<>>
  /\ job_ids = <<>>
  /\ sidx = 0
  /\ calls = <<>>
  /\ sout = <<>>
  /\ sstatus = <<>>

MainStart ==
  /\ pc = "start"
  /\ xyz_files = <<>>
  /\ selected_files = <<>>
  /\ sel_all = FALSE
  /\ config = EmptyConfig
  /\ opt_level = <<>>
  /\ output_dir = <<>>
  /\ idx = 0
  /\ last_input = <<>>
  /\ out = <<>>
  /\ dirs = {}
  /\ writes = <<>>
  /\ exit_status = <<>>
  /\ interrupted = FALSE

Init ==
  /\ xyzs_exists \in BOOLEAN
  /\ xyzs_entries \in (IF xyzs_exists THEN Listings ELSE {{}})
  /\ text_line \in TextLines
  /\ MainStart
  /\ ScriptIdle

(***************************************************************************)
(* main, statement by statement.  A step runs from one call of input() (or *)
(* one system call) to the next; out is what it printed on the way.        *)
(***************************************************************************)
\* What the step at the statement p prints before its first system call:
\* lines 455 and 93 before the open of line 95, line 159 before that of 161.
Announce(p) ==
  IF p = "render_inp"
    THEN LET xyz_file == selected_files[idx] IN
           <<print_info("Processing:", BaseName(xyz_file)),
             print_info("Generating input file:",
                        PathJoin(output_dir, InpName(xyz_file, config)))>>
  ELSE IF p = "render_sbatch"
    THEN <<print_info("Generating sbatch script:",
                      PathJoin(output_dir, SbatchName(selected_files[idx], config)))>>
  ELSE <<>>

\* The lines the step at the statement p may read from standard input.
Lines(p) ==
  IF p = "select" THEN SelectionLines
  ELSE IF p = "variant" THEN MenuLines
  ELSE IF p \in FlagKeys \cup {"solvation", "USE_GFNUPHILL"} THEN YesNoLines
  ELSE IF p \in PromptPcs THEN {text_line}
  ELSE { <<>> }

\* Everything the step at the statement p prints, in order, when it reads
\* line and runs to its end.
Prints(p, line) ==
  CASE p = "start" ->
         IF ~xyzs_exists THEN <<print_error("xyzs directory not found!", <<>>)>> ELSE <<>>
    [] p = "list" ->
         IF Sorted(Glob(xyzs_entries)) = <<>>
           THEN <<print_error("No XYZ files found in xyzs/ directory!", <<>>)>>
           ELSE Heading("select")
    [] p = "select" ->
         LET chosen == Select(line, xyz_files) IN
           chosen.warnings \o
             (IF chosen.files = <<>>
                THEN <<print_error("No valid files selected!", <<>>)>>
                ELSE <<print_success("Selected file(s)", IntStr(Len(chosen.files)))>>
                       \o Heading("variant"))
    [] p = "variant" ->
         LET round == select_goat_variant(line) IN
           IF round.returns
             THEN <<print_success("Selected:", round.value)>>
                    \o Heading(NextPc("variant", config))
             ELSE round.prints
    [] p \in ConfigKeys -> Heading(NextPc(p, config))
    [] p \in FlagKeys ->
         IF prompt_yes_no(line, FlagDefault(p)) = "again"
           THEN <<print_plain("Please answer yes (y) or no (n).")>>
           ELSE Heading(NextPc(p, config))
    [] p = "solvation" ->
         LET answer == prompt_yes_no(line, S_n) IN
           IF answer = "again" THEN <<print_plain("Please answer yes (y) or no (n).")>>
           ELSE IF answer = "yes" THEN Heading("solvent_name")
           ELSE Heading("opt_level")
    [] p = "solvent_name" -> Heading(NextPc(p, config))
    [] p = "opt_level" -> Heading(NextPc(p, config))
    [] p = "additional_keywords" -> Heading(NextPc(p, config))
    [] p = "USE_GFNUPHILL" ->
         LET answer == prompt_yes_no(line, S_n) IN
           IF answer = "again" THEN <<print_plain("Please answer yes (y) or no (n).")>>
           ELSE IF answer = "yes" THEN Heading("GFNUPHILL_METHOD")
           ELSE Heading("GEOM_MAXITER")
    [] p = "output_dir" -> <<>>
    [] p = "mkdir" ->
         <<print_success("Created output directory:", output_dir),
           print_info("=== Generating Files ===", <<>>)>>
    [] p = "render_inp" ->
         Announce(p) \o
           <<print_success("Created:",
                           PathJoin(output_dir, InpName(selected_files[idx], config)))>>
    [] p = "render_sbatch" ->
         Announce(p) \o
           <<print_success("Created:",
                           PathJoin(output_dir, SbatchName(selected_files[idx], config)))>>
    [] p = "submit_all" -> <<>>
    [] p = "summary" ->
         <<print_success("Generation Complete!", <<>>),
           print_info("Summary:", <<>>),
           print_success("Created submission helper script:",
                         PathJoin(output_dir, S_submit_all_jobs)),
           print_info("=== How to Submit Jobs ===", <<>>),
           print_info("=== Monitor Jobs ===", <<>>),
           print_warning("Remember to:", <<>>)>>

\* The mode open(path, 'w') leaves (lines 95, 161, 208): a file the process
\* wrote at that path before is truncated and keeps its mode, a new file is
\* not executable.
Executable(path) ==
  LET before == {i \in 1..Len(writes) : writes[i].path = path} IN
    before # {} /\ writes[CHOOSE i \in before : \A j \in before : j <= i].executable

\* The file the step at the statement p writes, as it is when the step has
\* ended: the input file (lines 95-147), the job script (lines 161-200), the
\* collective script (lines 208-265).
Renders(p) ==
  IF p = "render_inp"
    THEN LET xyz_file == selected_files[idx] IN
           File(PathJoin(output_dir, InpName(xyz_file, config)),
                Written(InpTemplate(xyz_file, config), config),
                Executable(PathJoin(output_dir, InpName(xyz_file, config))))
  ELSE IF p = "render_sbatch"
    THEN LET xyz_file == selected_files[idx] IN
           File(PathJoin(output_dir, SbatchName(xyz_file, config)),
                Written(SbatchTemplate(xyz_file, config), config), TRUE)
  ELSE File(PathJoin(output_dir, S_submit_all_jobs), SubmitAllLines, TRUE)

\* That file as it is on disk when the step is cut short after open: the
\* write calls made so far, the mode as open left it.
Truncated(f) ==
  {File(f.path, SubSeq(f.lines, 1, j), mode) :
     j \in 0..Len(f.lines), mode \in {Executable(f.path)}}

\* Lines 278-282: the directory must exist.
CheckXyzsDir ==
  /\ pc = "start"
  /\ IF ~xyzs_exists
       THEN Raise("SystemExit", 1, Prints(pc, <<>>))
       ELSE /\ pc' = "list"
            /\ out' = Prints(pc, <<>>)
            /\ UNCHANGED <<xyz_files, selected_files, sel_all, config, opt_level,
                           output_dir, idx, exit_status,
                           interrupted>>
  /\ UNCHANGED <<envVars, scriptVars, last_input, dirs, writes>>

\* Lines 285-298: the sorted artifacts; none is fatal.
ListXyzFiles ==
  /\ pc = "list"
  /\ LET found == Sorted(Glob(xyzs_entries)) IN
       IF found = <<>>
         THEN Raise("SystemExit", 1, Prints(pc, <<>>))
         ELSE /\ xyz_files' = found
              /\ pc' = "select"
              /\ out' = Prints(pc, <<>>)
              /\ UNCHANGED <<selected_files, sel_all, config, opt_level, output_dir,
                             idx, exit_status,
                             interrupted>>
  /\ UNCHANGED <<envVars, scriptVars, last_input, dirs, writes>>

\* Lines 299-326 and 65-78: the selection; no valid file is fatal.
SelectFiles ==
  /\ pc = "select"
  /\ \E line \in SelectionLines :
       LET chosen == Select(line, xyz_files) IN
         /\ last_input' = line
         /\ IF chosen.files = <<>>
              THEN Raise("SystemExit", 1, Prints(pc, line))
              ELSE /\ selected_files' = chosen.files
                   /\ sel_all' = (line \in AllLines)
                   /\ out' = Prints(pc, line)
                   /\ config' = EmptyConfig
                   /\ pc' = "variant"
                   /\ UNCHANGED <<xyz_files, opt_level, output_dir, idx, exit_status,
                                  interrupted>>
  /\ UNCHANGED <<envVars, scriptVars, dirs, writes>>

\* Lines 79-84 and 326-331: one round of the menu.
SelectGoatVariant ==
  /\ pc = "variant"
  /\ \E line \in MenuLines :
       LET round == select_goat_variant(line) IN
         /\ last_input' = line
         /\ out' = Prints(pc, line)
         /\ IF round.returns
              THEN /\ config' = SetItem(config, "GOAT_TYPE", round.value)
                   /\ pc' = NextPc("variant", config')
              ELSE UNCHANGED <<config, pc>>
  /\ UNCHANGED <<envVars, scriptVars, xyz_files, selected_files, sel_all, opt_level,
                 output_dir, idx, dirs, writes, exit_status,
                 interrupted>>

\* One statement config[p] = prompt_with_default(..., Default(p)).
AskConfig(p) ==
  /\ pc = p
  /\ p \in ConfigKeys
  /\ last_input' = text_line
  /\ config' = SetItem(config, p, prompt_with_default(text_line, Default(p)))
  /\ pc' = NextPc(p, config')
  /\ out' = Prints(p, text_line)
  /\ UNCHANGED <<envVars, scriptVars, xyz_files, selected_files, sel_all, opt_level,
                 output_dir, idx, dirs, writes, exit_status,
                 interrupted>>

\* One round of config[p] = 'true' if prompt_yes_no(...) else 'false'.
AskFlag(p) ==
  /\ pc = p
  /\ p \in FlagKeys
  /\ \E line \in YesNoLines :
       LET answer == prompt_yes_no(line, FlagDefault(p)) IN
         /\ last_input' = line
         /\ out' = Prints(p, line)
         /\ IF answer = "again"
              THEN UNCHANGED <<config, pc>>
              ELSE /\ config' = SetItem(config, p,
                                        IF answer = "yes" THEN S_true ELSE S_false)
                   /\ pc' = NextPc(p, config')
  /\ UNCHANGED <<envVars, scriptVars, xyz_files, selected_files, sel_all, opt_level,
                 output_dir, idx, dirs, writes, exit_status,
                 interrupted>>

\* Lines 337-356: one round of the question; without solvation the keyword
\* is empty.
AskSolvation ==
  /\ pc = "solvation"
  /\ \E line \in YesNoLines :
       LET answer == prompt_yes_no(line, S_n) IN
         /\ last_input' = line
         /\ out' = Prints(pc, line)
         /\ IF answer = "again"
              THEN UNCHANGED <<config, pc>>
              ELSE IF answer = "yes"
                THEN /\ pc' = "solvent_name"
                     /\ UNCHANGED config
                ELSE /\ config' = SetItem(config, "SOLVENT_KEYWORD", <<>>)
                     /\ pc' = "opt_level"
  /\ UNCHANGED <<envVars, scriptVars, xyz_files, selected_files, sel_all, opt_level,
                 output_dir, idx, dirs, writes, exit_status,
                 interrupted>>

\* Lines 344-356
AskSolventName ==
  /\ pc = "solvent_name"
  /\ LET solvent_name == prompt_with_default(text_line, D_solvent_name) IN
       config' = SetItem(config, "SOLVENT_KEYWORD",
                         S_CPCM_open \o solvent_name \o S_close)
  /\ last_input' = text_line
  /\ pc' = NextPc("solvent_name", config')
  /\ out' = Prints(pc, text_line)
  /\ UNCHANGED <<envVars, scriptVars, xyz_files, selected_files, sel_all, opt_level,
                 output_dir, idx, dirs, writes, exit_status,
                 interrupted>>

\* Line 357: the optimization level, kept in a variable of main.
AskOptLevel ==
  /\ pc = "opt_level"
  /\ last_input' = text_line
  /\ opt_level' = prompt_with_default(text_line, D_opt_level)
  /\ pc' = NextPc("opt_level", config)
  /\ out' = Prints(pc, text_line)
  /\ UNCHANGED <<envVars, scriptVars, xyz_files, selected_files, sel_all, config,
                 output_dir, idx, dirs, writes, exit_status,
                 interrupted>>

\* Lines 361-371: the additional keywords, joined to the optimization level.
AskKeywords ==
  /\ pc = "additional_keywords"
  /\ LET additional_keywords == prompt_with_default(text_line, <<>>)
     IN config' = SetItem(config, "EXTRA_KEYWORDS",
                          IF additional_keywords # <<>>
                            THEN opt_level \o <<" ">> \o additional_keywords
                            ELSE opt_level)
  /\ last_input' = text_line
  /\ pc' = NextPc("additional_keywords", config')
  /\ out' = Prints(pc, text_line)
  /\ UNCHANGED <<envVars, scriptVars, xyz_files, selected_files, sel_all, opt_level,
                 output_dir, idx, dirs, writes, exit_status,
                 interrupted>>

\* Lines 409-418: one round of the question.
AskGfnUphill ==
  /\ pc = "USE_GFNUPHILL"
  /\ \E line \in YesNoLines :
       LET answer == prompt_yes_no(line, S_n) IN
         /\ last_input' = line
         /\ out' = Prints(pc, line)
         /\ IF answer = "again"
              THEN UNCHANGED <<config, pc>>
              ELSE IF answer = "yes"
                THEN /\ config' = SetItem(config, "USE_GFNUPHILL", S_true)
                     /\ pc' = "GFNUPHILL_METHOD"
                ELSE /\ config' = SetItem(config, "USE_GFNUPHILL", S_false)
                     /\ pc' = "GEOM_MAXITER"
  /\ UNCHANGED <<envVars, scriptVars, xyz_files, selected_files, sel_all, opt_level,
                 output_dir, idx, dirs, writes, exit_status,
                 interrupted>>

\* Lines 443-444
AskOutputDir ==
  /\ pc = "output_dir"
  /\ last_input' = text_line
  /\ output_dir' = prompt_with_default(text_line, D_output_dir)
  /\ pc' = "mkdir"
  /\ out' = Prints(pc, text_line)
  /\ UNCHANGED <<envVars, scriptVars, xyz_files, selected_files, sel_all, config,
                 opt_level, idx, dirs, writes, exit_status,
                 interrupted>>

\* Lines 447-453: the directory is made and the loop starts.
MakeOutputDir ==
  /\ pc = "mkdir"
  /\ dirs' = dirs \cup {output_dir}
  /\ out' = Prints(pc, <<>>)
  /\ idx' = 1
  /\ pc' = "render_inp"
  /\ UNCHANGED <<envVars, scriptVars, xyz_files, selected_files, sel_all, config,
                 opt_level, output_dir, last_input, writes, exit_status,
                 interrupted>>

\* Lines 455-456: generate_inp_file for the file the loop is at.
GenerateInp ==
  /\ pc = "render_inp"
  /\ writes' = Append(writes, Renders(pc))
  /\ IF Complete(InpTemplate(selected_files[idx], config), config)
       THEN /\ out' = Prints(pc, <<>>)
            /\ pc' = "render_sbatch"
            /\ UNCHANGED <<xyz_files, selected_files, sel_all, config, opt_level,
                           output_dir, idx, exit_status,
                           interrupted>>
       ELSE Raise("KeyError", 1, Announce(pc))
  /\ UNCHANGED <<envVars, scriptVars, last_input, dirs>>

\* The loop left after its first round, as when the statement that follows
\* it is indented into it and ends it.
LoopNext_Once(i, files) == "submit_all"

\* The for statement of line 453: its next round, or the statement after it.
LoopNext(i, files) == IF i < Len(files) THEN "render_inp" ELSE "submit_all"

\* Line 457: generate_sbatch_script for the same file; then the next file.
GenerateSbatch ==
  /\ pc = "render_sbatch"
  /\ IF Complete(SbatchTemplate(selected_files[idx], config), config)
       THEN /\ writes' = Append(writes, Renders(pc))
            /\ out' = Prints(pc, <<>>)
            /\ idx' = idx + 1
            /\ pc' = LoopNext(idx, selected_files)
            /\ UNCHANGED <<xyz_files, selected_files, sel_all, config, opt_level,
                           output_dir, exit_status,
                           interrupted>>
       ELSE /\ writes' = Append(writes, File(Renders(pc).path, Renders(pc).lines,
                                             Executable(Renders(pc).path)))
            /\ Raise("KeyError", 1, Announce(pc))
  /\ UNCHANGED <<envVars, scriptVars, last_input, dirs>>

\* Lines 460-461: generate_submit_all_script.
GenerateSubmitAll ==
  /\ pc = "submit_all"
  /\ writes' = Append(writes, Renders(pc))
  /\ pc' = "summary"
  /\ out' = Prints(pc, <<>>)
  /\ UNCHANGED <<envVars, scriptVars, xyz_files, selected_files, sel_all, config,
                 opt_level, output_dir, idx, last_input, dirs, exit_status,
                 interrupted>>

\* Lines 464-500: the summary; main returns and the process exits with 0.
Summary ==
  /\ pc = "summary"
  /\ Exit(0, Prints(pc, <<>>), FALSE)
  /\ UNCHANGED <<envVars, scriptVars, last_input, dirs, writes>>

\* What the step at the statement p has done to the disk when it is cut
\* short after printing k of its messages: mkdir precedes the messages of its
\* step; a file is opened after the messages of Announce and is whole, with
\* its mode set, before the message that follows.
CutShort(p, k) ==
  IF p = "mkdir"
    THEN /\ dirs' \in (IF k = 0 THEN {dirs} ELSE {}) \cup {dirs \cup {output_dir}}
         /\ writes' = writes
  ELSE IF p \in {"render_inp", "render_sbatch", "submit_all"}
    THEN /\ dirs' = dirs
         /\ \E opened \in {Len(Announce(p))} : \E f \in {Renders(p)} :
              writes' \in IF k < opened THEN {writes}
                          ELSE IF k > opened THEN {Append(writes, f)}
                          ELSE {writes} \cup {Append(writes, g) : g \in Truncated(f) \cup {f}}
  ELSE UNCHANGED <<dirs, writes>>

\* Ctrl-C: KeyboardInterrupt, raised while input() waits or between any two
\* statements of the step the process is in, after k of the messages of that
\* step.  A step that reads no line leaves the line read last as it is.  At
\* the statement start the process may still be at line 504, before the try.
Interrupt ==
  /\ pc # "exited"
  /\ \E line \in Lines(pc) : \E prints \in {Prints(pc, line)} :
       \E k \in 0..Len(prints) : \E printed \in {SubSeq(prints, 1, k)} :
         /\ CutShort(pc, k)
         /\ last_input' \in IF pc \notin PromptPcs THEN {last_input}
                             ELSE IF k = 0 THEN { <<>>, line } ELSE {line}
         /\ Raise("KeyboardInterrupt", 1, printed)
  /\ UNCHANGED <<envVars, scriptVars>>

\* Standard input ends while input() waits: EOFError, an Exception.
EndOfInput ==
  /\ pc \in PromptPcs
  /\ Raise("EOFError", 1, <<>>)
  /\ last_input' = <<>>
  /\ UNCHANGED <<envVars, scriptVars, dirs, writes>>

\* OSError, an Exception: mkdir (line 447) or open (lines 95, 161, 208)
\* fails and nothing is made; or a write, the close of the with statement or
\* os.chmod (lines 200, 265) fails, and the file stays as far as it was
\* written, its mode as open left it.
IoError ==
  /\ pc \in {"mkdir", "render_inp", "render_sbatch", "submit_all"}
  /\ writes' \in {writes} \cup
                   (IF pc = "mkdir" THEN {}
                    ELSE {Append(writes, f) : f \in Truncated(Renders(pc))})
  /\ \E printed \in {Announce(pc)} : Raise("OSError", 1, printed)
  /\ UNCHANGED <<envVars, scriptVars, last_input, dirs>>

Next ==
  \/ CheckXyzsDir
  \/ ListXyzFiles
  \/ SelectFiles
  \/ SelectGoatVariant
  \/ \E p \in ConfigKeys : AskConfig(p)
  \/ \E p \in FlagKeys : AskFlag(p)
  \/ AskSolvation
  \/ AskSolventName
  \/ AskOptLevel
  \/ AskKeywords
  \/ AskGfnUphill
  \/ AskOutputDir
  \/ MakeOutputDir
  \/ GenerateInp
  \/ GenerateSbatch
  \/ GenerateSubmitAll
  \/ Summary
  \/ Interrupt
  \/ EndOfInput
  \/ IoError

Spec == Init /\ [][Next]_vars


(***************************************************************************)
(* The program of submit_all_jobs.sh (the text of lines 209-263), run by   *)
(* bash in a working directory cwd.                                        *)
(***************************************************************************)
\* The names an entry of the working directory may have, and its kinds: a
\* regular file with the x bit, one without, a directory.
CwdNames ==
  { <<"r", "u", "n", "_", "a", ".", "s", "h">>,
    <<"r", "u", "n", "_", "b", ".", "s", "h">>,
    <<"n", "o", "t", "e", "s", ".", "t", "x", "t">> }
CwdKinds == {"executable", "plain", "directory"}
CwdListings ==
  UNION {[S -> CwdKinds] : S \in {S \in SUBSET CwdNames : Cardinality(S) <= MaxScripts}}

\* What sbatch may answer: its exit status and its output.
SbatchResults ==
  { [status |-> 0,
     output |-> S_Submitted \o <<"4", "2">>],
    [status |-> 0,
     output |-> <<"Q", "u", "e", "u", "e", "d", " ", "7">>],
    [status |-> 0,
     output |-> <<"w", "a", "r", "n", "\n">> \o S_Submitted \o <<"7", " ", "o", "k", "\n">>
                  \o S_Submitted \o <<"8">>],
    [status |-> 1,
     output |-> <<"s", "b", "a", "t", "c", "h", ":", " ", "e", "r", "r", "o", "r">>] }

StartsWith(s, pre) == Len(s) >= Len(pre) /\ SubSeq(s, 1, Len(pre)) = pre

\* Pathname expansion of the word run_*.sh: the sorted names that match, or
\* the word itself when none does (nullglob and failglob are off).
BashGlob(names) ==
  LET matches == {n \in names : /\ Len(n) >= Len(S_run_) + Len(S_dot_sh)
                                 /\ StartsWith(n, S_run_)
                                 /\ EndsWith(n, S_dot_sh)}
  IN IF matches = {} THEN <<S_run_glob>> ELSE Sorted(matches)

\* [ -f "$script" ] alone, without [ -x "$script" ].
IsExecutableFile_OnlyFile(dir, script) ==
  script \in DOMAIN dir /\ dir[script] # "directory"

\* [ -f "$script" ] && [ -x "$script" ]
IsExecutableFile(dir, script) == script \in DOMAIN dir /\ dir[script] = "executable"

\* grep -oP 'Submitted batch job \K\d+' inside $(...): the digits of every
\* match, from left to right, one line each; nothing when there is no match.
RECURSIVE DigitRun(_)
DigitRun(s) ==
  IF s # <<>> /\ IsDigit(Head(s)) THEN <<Head(s)>> \o DigitRun(Tail(s)) ELSE <<>>
RECURSIVE GrepFrom(_, _)
GrepFrom(output, i) ==
  LET n == Len(S_Submitted) IN
    IF i + n > Len(output) THEN <<>>
    ELSE IF SubSeq(output, i, i + n - 1) = S_Submitted /\ IsDigit(output[i + n])
      THEN LET digits == DigitRun(SubSeq(output, i + n, Len(output)))
           IN <<digits>> \o GrepFrom(output, i + n + Len(digits))
      ELSE GrepFrom(output, i + 1)
RECURSIVE JoinLines(_)
JoinLines(ls) ==
  IF ls = <<>> THEN <<>>
  ELSE IF Len(ls) = 1 THEN ls[1]
  ELSE ls[1] \o <<"\n">> \o JoinLines(Tail(ls))
GrepJobId(output) == JoinLines(GrepFrom(output, 1))

\* One echoed line.
Echo(text, arg, n) == [text |-> text, arg |-> arg, n |-> n]

ScriptInit ==
  /\ xyzs_exists = FALSE
  /\ xyzs_entries = {}
  /\ text_line = <<>>
  /\ MainStart
  /\ spc = "glob"
  /\ cwd \in CwdListings
  /\ sbatch_scripts = <<>>
  /\ job_ids = <<>>
  /\ sidx = 0
  /\ calls = <<>>
  /\ sout = <<>>
  /\ sstatus = <<>>

\* Lines 219-231: the glob, the test for an empty array, the count.
ScriptGlob ==
  /\ spc = "glob"
  /\ sbatch_scripts' = BashGlob(DOMAIN cwd)
  /\ IF Len(sbatch_scripts') = 0
       THEN /\ sout' = Append(sout, Echo("ERROR: No sbatch scripts found!", <<>>, 0))
            /\ sstatus' = <<1>>
            /\ spc' = "done"
            /\ UNCHANGED <<job_ids, sidx>>
       ELSE /\ sout' = Append(sout, Echo("Found job(s) to submit:", <<>>,
                                         Len(sbatch_scripts')))
            /\ job_ids' = <<>>
            /\ sidx' = 1
            /\ spc' = "loop"
            /\ UNCHANGED sstatus
  /\ UNCHANGED <<envVars, mainVars, cwd, calls>>

\* Lines 232-247: one round of the for loop.
ScriptSubmit ==
  /\ spc = "loop"
  /\ LET script == sbatch_scripts[sidx] IN
       IF IsExecutableFile(cwd, script)
         THEN \E result \in SbatchResults :
                /\ calls' = Append(calls, [script |-> script, status |-> result.status,
                                           output |-> result.output])
                /\ IF result.status = 0
                     THEN LET job_id == GrepJobId(result.output) IN
                            /\ job_ids' = Append(job_ids, job_id)
                            /\ sout' = sout \o <<Echo("Submitting:", script, 0),
                                                 Echo("Job ID:", job_id, 0)>>
                     ELSE /\ sout' = sout \o <<Echo("Submitting:", script, 0),
                                               Echo("Failed:", result.output, 0)>>
                          /\ UNCHANGED job_ids
         ELSE /\ sout' = Append(sout, Echo("Skipping:", script, 0))
              /\ UNCHANGED <<calls, job_ids>>
  /\ sidx' = sidx + 1
  /\ spc' = IF sidx < Len(sbatch_scripts) THEN "loop" ELSE "summary"
  /\ UNCHANGED <<envVars, mainVars, cwd, sbatch_scripts, sstatus>>

\* "${job_ids[*]}" under IFS=sep, and ${job_ids[@]} inside a quoted word of
\* echo (sep a space): the elements, empty ones included, with sep between.
RECURSIVE JoinWith(_, _)
JoinWith(ls, sep) ==
  IF ls = <<>> THEN <<>>
  ELSE IF Len(ls) = 1 THEN ls[1]
  ELSE ls[1] \o <<sep>> \o JoinWith(Tail(ls), sep)

\* $USER in the environment of the script.
USER == <<"u">>

\* Lines 249-262: the summary; the script ends with the status of its last echo.
ScriptSummary ==
  /\ spc = "summary"
  /\ sout' = sout \o <<Echo("Submission Summary", <<>>, 0),
                       Echo("Total jobs submitted:", <<>>, Len(job_ids)),
                       Echo("Job IDs:", JoinWith(job_ids, " "), 0),
                       Echo("To monitor jobs:", <<>>, 0),
                       Echo("squeue -u", USER, 0),
                       Echo("squeue -j", JoinWith(job_ids, ","), 0),
                       Echo("To cancel all jobs:", <<>>, 0),
                       Echo("scancel", JoinWith(job_ids, " "), 0)>>
  /\ sstatus' = <<0>>
  /\ spc' = "done"
  /\ UNCHANGED <<envVars, mainVars, cwd, sbatch_scripts, job_ids, sidx, calls>>

ScriptNext ==
  \/ ScriptGlob
  \/ ScriptSubmit
  \/ ScriptSummary

ScriptSpec == ScriptInit /\ [][ScriptNext]_vars


(***************************************************************************)
(* The claims.                                                             *)
(***************************************************************************)
\* What the most recent step printed, the headings of print_info aside, and
\* whether the last of it has this text.
IsSaid(m) == m.sev # "INFO"
Said == SelectSeq(out, IsSaid)
LastPrinted(text) == Said # <<>> /\ Said[Len(Said)].text = text

\* The artifacts the directory holds, and their number.
Artifacts == {e \in xyzs_entries : EndsWith(e, S_dot_xyz)}

\* The state right after the selection was accepted; the end of a run whose
\* last message refuses the selection; and such an end that no SIGINT took
\* part in.
JustSelected == pc = "variant" /\ LastPrinted("Selected file(s)")
Refused == pc = "exited" /\ LastPrinted("No valid files selected!")
JustRefused == Refused /\ ~interrupted

\* C1: the exit status is 0 on normal completion and 1 when xyzs is missing,
\* when it holds no *.xyz entry, when no artifact is selected, when the user
\* interrupts the process (a warning, not an error) and when any other
\* exception leaves main (an error); there is no other exit status, and none
\* while the process runs.  Without xyzs, or without a *.xyz entry in it, no
\* run ends in another way than by that error or by an interrupt.
C1_ExitStatus ==
  /\ pc # "exited" => exit_status = <<>> /\ ~interrupted
  /\ pc = "exited" =>
       /\ exit_status \in {<<0>>, <<1>>}
       /\ interrupted =>
            exit_status = <<1>> /\ LastPrinted("Script interrupted by user")
       /\ exit_status = <<0>> <=>
            [i \in 1..Len(Said) |-> <<Said[i].sev, Said[i].text>>] =
              << <<"SUCCESS", "Generation Complete!">>,
                 <<"SUCCESS", "Created submission helper script:">>,
                 <<"WARNING", "Remember to:">> >>
       /\ exit_status = <<1>> =>
            \/ Said = <<print_error("xyzs directory not found!", <<>>)>>
            \/ Said = <<print_error("No XYZ files found in xyzs/ directory!", <<>>)>>
            \/ /\ LastPrinted("No valid files selected!")
               /\ Said[Len(Said)].sev = "ERROR"
            \/ /\ interrupted
               /\ Said[Len(Said)] = print_warning("Script interrupted by user", <<>>)
               /\ \A i \in 1..Len(Said) : Said[i].text # "An error occurred:"
            \/ /\ Said = <<print_error("An error occurred:", <<>>)>>
               /\ xyzs_exists /\ Artifacts # {}
       /\ ~xyzs_exists =>
            \A i \in 1..Len(out) :
              out[i] \in {print_error("xyzs directory not found!", <<>>),
                          print_warning("Script interrupted by user", <<>>)}
       /\ xyzs_exists /\ Artifacts = {} =>
            \A i \in 1..Len(out) :
              out[i] \in {print_error("No XYZ files found in xyzs/ directory!", <<>>),
                          print_warning("Script interrupted by user", <<>>)}
       /\ (\E i \in 1..Len(out) : out[i].text \in {"xyzs directory not found!",
                                                   "No XYZ files found in xyzs/ directory!",
                                                   "No valid files selected!"}) =>
            dirs = {} /\ writes = <<>>
       /\ \A i \in 1..Len(out) :
            out[i].text = "Script interrupted by user" =>
              out[i].sev = "WARNING" /\ i = Len(out)

\* What a selection token asks for: an index, or nothing when it is no number.
TokenIndex ==
  (<<"1">> :> <<1>>) @@ (<<"2">> :> <<2>>) @@ (<<"3">> :> <<3>>) @@ (<<"0">> :> <<0>>)
    @@ (<<"9", "9">> :> <<99>>) @@ (<<"x">> :> <<>>) @@ (<<"+", "1">> :> <<1>>)
TokenSeqs == UNION {[1..n -> SelectionTokens] : n \in 0..MaxTokens}
\* The artifact of rank k in the sorted order of the paths.
ArtifactAt(k) ==
  PathJoin(S_xyzs, CHOOSE e \in Artifacts :
                     Cardinality({d \in Artifacts : StrLess(d, e)}) = k - 1)
InRange(t) ==
  TokenIndex[t] # <<>> /\ 1 <= TokenIndex[t][1] /\ TokenIndex[t][1] <= Cardinality(Artifacts)
OutOfRange(t) == TokenIndex[t] # <<>> /\ ~InRange(t)
\* The tokens of ts whose membership of the range is as asked, in order.
RECURSIVE Keep(_, _)
Keep(ts, inside) ==
  IF ts = <<>> THEN <<>>
  ELSE (IF (inside /\ InRange(Head(ts))) \/ (~inside /\ OutOfRange(Head(ts)))
          THEN <<Head(ts)>> ELSE <<>>) \o Keep(Tail(ts), inside)
\* The messages of the step with this text.
RECURSIVE PrintedWith(_, _)
PrintedWith(msgs, text) ==
  IF msgs = <<>> THEN <<>>
  ELSE (IF Head(msgs).text = text THEN <<Head(msgs)>> ELSE <<>>)
         \o PrintedWith(Tail(msgs), text)

\* C2: of the tokens of the selection, each index outside 1..N is answered by
\* a warning and left out, and the indices inside 1..N are selected, in
\* order; when none is inside 1..N, or the line is empty, the process exits
\* with status 1 at once, having created no directory and written no file
\* (the status is that of a run no SIGINT took part in).
\* (The warning shows the number; for the tokens typed here the number reads
\* as the token does.)
C2_OutOfRangeSelection ==
  (JustSelected \/ Refused) =>
  \A ts \in TokenSeqs :
    last_input = JoinSp(ts) =>
      /\ JustSelected =>
           /\ Keep(ts, TRUE) # <<>>
           /\ selected_files =
                [i \in 1..Len(Keep(ts, TRUE)) |->
                   ArtifactAt(TokenIndex[Keep(ts, TRUE)[i]][1])]
           /\ PrintedWith(out, "Invalid index: (skipped)") =
                [i \in 1..Len(Keep(ts, FALSE)) |->
                   print_warning("Invalid index: (skipped)", Keep(ts, FALSE)[i])]
      /\ Refused =>
           /\ Keep(ts, TRUE) = <<>>
           /\ ~interrupted => exit_status = <<1>>
           /\ dirs = {}
           /\ writes = <<>>
           /\ PrintedWith(out, "Invalid index: (skipped)") =
                [i \in 1..Len(Keep(ts, FALSE)) |->
                   print_warning("Invalid index: (skipped)", Keep(ts, FALSE)[i])]

C2_Witness ==
  /\ JustSelected
  /\ last_input = <<"9", "9", " ", "2">>
  /\ Len(selected_files) = 1
  /\ Cardinality(Artifacts) = 2
  /\ out[1] = print_warning("Invalid index: (skipped)", <<"9", "9">>)

\* C3: run where no name matches run_*.sh, submit_all_jobs.sh prints an
\* error and ends with a status other than 0, without calling sbatch and
\* without reaching the summary.
C3_NoScriptsIsAnError ==
  (spc = "done" /\ \A n \in DOMAIN cwd : ~(StartsWith(n, S_run_) /\ EndsWith(n, S_dot_sh)))
    => /\ sstatus # <<0>>
       /\ \E i \in 1..Len(sout) : sout[i].text = "ERROR: No sbatch scripts found!"
       /\ calls = <<>>
       /\ \A i \in 1..Len(sout) : sout[i].text # "Submission Summary"


\* The statements of main from the creation of the output directory on, and
\* those at which files may already be written.
RenderPcs == {"mkdir", "render_inp", "render_sbatch", "submit_all", "summary"}
WritingPcs == RenderPcs \ {"mkdir"}
\* The positions of the ORCA input files among the files written.
InpWrites == {i \in 1..Len(writes) : EndsWith(writes[i].path, S_dot_inp)}
\* The lines between "%goat" and the "end" that closes it.
GoatBlock(lines) ==
  LET a == CHOOSE i \in 1..Len(lines) : lines[i].kw = "%goat"
      b == CHOOSE j \in (a + 1)..Len(lines) :
             lines[j].kw = "end" /\ \A m \in (a + 1)..(j - 1) : lines[m].kw # "end"
  IN SubSeq(lines, a + 1, b - 1)
Has(block, kw, args) ==
  /\ Cardinality({i \in 1..Len(block) : block[i].kw = kw}) = 1
  /\ \E i \in 1..Len(block) : block[i] = [kw |-> kw, args |-> args]
Lacks(block, kw) == \A i \in 1..Len(block) : block[i].kw # kw

\* C4: the %goat block of every input file holds MAXENTROPY, MINDELS and
\* CONFDEGEN exactly in mode GOAT-ENTROPY, FREEZEBONDS and FREEZEANGLES
\* exactly in mode GOAT-EXPLORE, FREEZEAMIDES exactly when the amide answer
\* was yes, FREEZECISTRANS exactly when the cis/trans answer was yes, and
\* GFNUPHILL exactly when the GFN uphill answer was yes.  (Looked at when the
\* loop over the selected files has ended: every input file of the run is
\* written by then, and config is still the one they were rendered from.)
C4_GoatBlock ==
  pc = "submit_all" =>
    \A i \in InpWrites :
      /\ \E j \in 1..Len(writes[i].lines) : writes[i].lines[j].kw = "%goat"
      /\ \A B \in {GoatBlock(writes[i].lines)} :
         LET mode == config["GOAT_TYPE"]
         IN /\ IF mode = <<"G", "O", "A", "T", "-", "E", "N", "T", "R", "O", "P", "Y">>
                 THEN /\ Has(B, "MAXENTROPY", <<S_true>>)
                      /\ Has(B, "MINDELS", <<config["MINDELS"]>>)
                      /\ Has(B, "CONFDEGEN", <<config["CONFDEGEN"]>>)
                 ELSE Lacks(B, "MAXENTROPY") /\ Lacks(B, "MINDELS") /\ Lacks(B, "CONFDEGEN")
            /\ IF mode = <<"G", "O", "A", "T", "-", "E", "X", "P", "L", "O", "R", "E">>
                 THEN /\ Has(B, "FREEZEBONDS", <<config["FREEZEBONDS"]>>)
                      /\ Has(B, "FREEZEANGLES", <<config["FREEZEANGLES"]>>)
                 ELSE Lacks(B, "FREEZEBONDS") /\ Lacks(B, "FREEZEANGLES")
            /\ IF config["FREEZE_AMIDES"] = S_true
                 THEN Has(B, "FREEZEAMIDES", <<S_true>>) ELSE Lacks(B, "FREEZEAMIDES")
            /\ IF config["FREEZE_CISTRANS"] = S_true
                 THEN Has(B, "FREEZECISTRANS", <<S_true>>) ELSE Lacks(B, "FREEZECISTRANS")
            /\ IF config["USE_GFNUPHILL"] = S_true
                 THEN Has(B, "GFNUPHILL", <<config["GFNUPHILL_METHOD"]>>)
                 ELSE Lacks(B, "GFNUPHILL")

C4_Witness ==
  /\ pc = "submit_all"
  /\ InpWrites # {}
  /\ config["GOAT_TYPE"] = S_GOAT_ENTROPY
  /\ config["FREEZE_AMIDES"] = S_false
  /\ config["FREEZE_CISTRANS"] = S_true
  /\ config["USE_GFNUPHILL"] = S_true
  /\ Lacks(GoatBlock(writes[1].lines), "FREEZEAMIDES")
  /\ Has(GoatBlock(writes[1].lines), "MAXENTROPY", <<S_true>>)

\* C5: when rendering starts and until it ends, config names one of the four
\* modes; MINDELS and CONFDEGEN are present exactly in mode GOAT-ENTROPY,
\* FREEZEBONDS and FREEZEANGLES exactly in mode GOAT-EXPLORE,
\* GFNUPHILL_METHOD exactly when USE_GFNUPHILL is 'true'; and every key a
\* renderer is about to read is present, so that every file is written to
\* its last line.
C5_ConfigComplete ==
  pc \in RenderPcs =>
    /\ "GOAT_TYPE" \in DOMAIN config
    /\ config["GOAT_TYPE"] \in {S_GOAT, S_GOAT_ENTROPY, S_GOAT_EXPLORE, S_GOAT_DIVERSITY}
    /\ \A k \in {"MINDELS", "CONFDEGEN"} :
         k \in DOMAIN config <=> config["GOAT_TYPE"] = S_GOAT_ENTROPY
    /\ \A k \in {"FREEZEBONDS", "FREEZEANGLES"} :
         k \in DOMAIN config <=> config["GOAT_TYPE"] = S_GOAT_EXPLORE
    /\ "USE_GFNUPHILL" \in DOMAIN config
    /\ "GFNUPHILL_METHOD" \in DOMAIN config <=> config["USE_GFNUPHILL"] = S_true
    /\ pc = "render_inp" => Complete(InpTemplate(selected_files[idx], config), config)
    /\ pc = "render_sbatch" =>
         Complete(SbatchTemplate(selected_files[idx], config), config)
    /\ \A i \in 1..Len(writes) :
         writes[i].lines[Len(writes[i].lines)].kw
           \in {"* xyzfile", "echo completion information", "submit_all_jobs.sh"}

C5_Witness ==
  /\ pc = "render_inp"
  /\ config["GOAT_TYPE"] = S_GOAT_EXPLORE
  /\ {"FREEZEBONDS", "FREEZEANGLES", "GFNUPHILL_METHOD"} \subseteq DOMAIN config
  /\ "MINDELS" \notin DOMAIN config

\* The suffix each mode gives the file names, and the base name of each
\* artifact.
ModeSuffix ==
  (S_GOAT :> <<"g", "o", "a", "t">>) @@ (S_GOAT_ENTROPY :> <<"g", "o", "a", "t", "_", "e", "n", "t", "r", "o", "p", "y">>) @@
  (S_GOAT_EXPLORE :> <<"g", "o", "a", "t", "_", "e", "x", "p", "l", "o", "r", "e">>) @@ (S_GOAT_DIVERSITY :> <<"g", "o", "a", "t", "_", "d", "i", "v", "e", "r", "s", "i", "t", "y">>)
BaseOf ==
  (<<"x", "y", "z", "s", "/", "a", ".", "x", "y", "z">> :> <<"a">>) @@ (<<"x", "y", "z", "s", "/", "a", ".", "b", ".", "x", "y", "z">> :> <<"a", ".", "b">>)

\* C6: for the artifact of base name b and the mode of lower-case,
\* underscore form m, the input renderer writes <output_dir>/b_m.inp and the
\* job-script renderer <output_dir>/run_b_m.sh, whose run line reads b_m.inp
\* and redirects to b_m.out.
C6_FileNames ==
  pc \in WritingPcs =>
    \A i \in 1..Len(writes) :
      i <= 2 * Len(selected_files) =>
        LET b_m == BaseOf[selected_files[(i + 1) \div 2]] \o <<"_">>
                     \o ModeSuffix[config["GOAT_TYPE"]]
        IN IF i % 2 = 1
             THEN writes[i].path = output_dir \o <<"/">> \o b_m \o <<".", "i", "n", "p">>
             ELSE /\ writes[i].path =
                       output_dir \o <<"/", "r", "u", "n", "_">> \o b_m \o <<".", "s", "h">>
                  /\ \E j \in 1..Len(writes[i].lines) :
                       /\ writes[i].lines[j].kw = "run >"
                       /\ writes[i].lines[j].args[2] = b_m \o <<".", "i", "n", "p">>
                       /\ writes[i].lines[j].args[3] = b_m \o <<".", "o", "u", "t">>

C6_Witness ==
  /\ pc = "summary"
  /\ config["GOAT_TYPE"] = S_GOAT_DIVERSITY
  /\ Len(writes) = 3
  /\ writes[1].path = <<"g", "o", "a", "t", "_", "i", "n", "p", "u", "t", "s", "/", "a", ".", "b", "_", "g", "o", "a", "t", "_", "d", "i", "v", "e", "r", "s", "i", "t", "y", ".", "i", "n", "p">>
  /\ writes[2].path = <<"g", "o", "a", "t", "_", "i", "n", "p", "u", "t", "s", "/", "r", "u", "n", "_", "a", ".", "b", "_", "g", "o", "a", "t", "_", "d", "i", "v", "e", "r", "s", "i", "t", "y", ".", "s", "h">>

\* The files written are, for the artifacts in sorted order, the input file
\* of each followed by its executable job script, and the collective script
\* last.
EveryArtifactRendered ==
  /\ Len(writes) = 2 * Cardinality(Artifacts) + 1
  /\ \A k \in 1..Cardinality(Artifacts) :
       LET inp == writes[2 * k - 1]
           sh == writes[2 * k]
           name == SubSeq(BaseName(inp.path), 1, Len(BaseName(inp.path)) - 4)
       IN /\ EndsWith(inp.path, S_dot_inp)
          /\ inp.lines[Len(inp.lines)].kw = "* xyzfile"
          /\ inp.lines[Len(inp.lines)].args[3] = ArtifactAt(k)
          /\ BaseName(sh.path) = S_run_ \o name \o S_dot_sh
          /\ sh.executable

\* C7: the answer "all", in any letter case and with blanks around, selects
\* every artifact of xyzs, in sorted order, without a warning and without
\* exiting; the run then writes one input file and one job script for each.
C7_AllSelectsEverything ==
  /\ (JustSelected /\ last_input \in AllLines) =>
       /\ selected_files = [k \in 1..Cardinality(Artifacts) |-> ArtifactAt(k)]
       /\ sel_all
       /\ \A i \in 1..Len(out) : out[i].sev # "WARNING"
  /\ JustRefused => last_input \notin AllLines
  /\ (pc = "summary" /\ sel_all) => EveryArtifactRendered

C7_Witness ==
  /\ pc = "summary"
  /\ sel_all
  /\ Cardinality(Artifacts) = 2
  /\ xyzs_entries # Artifacts
  /\ EveryArtifactRendered


\* The menu lines that name a mode, with the mode each names, and the
\* statements that ask a yes/no question, with the answers that are neither.
ValidMenu ==
  (<<"1">> :> S_GOAT) @@ (<<" ", "2", " ">> :> S_GOAT_ENTROPY) @@
  (<<"3">> :> S_GOAT_EXPLORE) @@ (<<"4", "\t">> :> S_GOAT_DIVERSITY)
YesNoPcs == FlagKeys \cup {"solvation", "USE_GFNUPHILL"}
\* The statements main goes to from a yes/no question.
YesNoNext ==
  {"solvent_name", "opt_level", "MINDELS", "FREEZEBONDS", "FREEZEANGLES",
   "FREEZE_AMIDES", "FREEZE_CISTRANS", "USE_GFNUPHILL", "GFNUPHILL_METHOD",
   "GEOM_MAXITER"}
InvalidYesNo == { <<"y", "e">> }
Nag == print_plain("Please answer yes (y) or no (n).")
InvalidChoice == print_error("Invalid choice. Please enter 1-4.", <<>>)

\* C8: the variant menu returns only on an answer that, stripped, is 1, 2, 3
\* or 4, and then returns the mode of that number; on any other answer it
\* prints an error and asks again, having returned nothing and ended nothing
\* (in a run no SIGINT took part in).
C8_MenuLoops ==
  /\ pc = "METHOD" =>
       /\ last_input \in DOMAIN ValidMenu
       /\ config["GOAT_TYPE"] = ValidMenu[last_input]
       /\ Said = <<print_success("Selected:", ValidMenu[last_input])>>
  /\ ((\E i \in 1..Len(out) : out[i].text = "Invalid choice. Please enter 1-4.")
        /\ ~interrupted) =>
       /\ out = <<InvalidChoice>>
       /\ pc = "variant"
       /\ last_input \in MenuLines \ DOMAIN ValidMenu
       /\ "GOAT_TYPE" \notin DOMAIN config
       /\ exit_status = <<>>
  /\ (pc = "variant" /\ last_input \in DOMAIN ValidMenu) => JustSelected

C8_Witness ==
  /\ pc = "variant"
  /\ out = <<InvalidChoice>>
  /\ last_input = <<"1", "2">>
  /\ exit_status = <<>>

\* What holds of the menu and of the yes/no questions: an answer that is not
\* valid is answered by a message and the same question, and the program
\* neither moves on nor ends (in a run no SIGINT took part in).
MenuAndYesNoAskAgain ==
  /\ ((\E i \in 1..Len(out) : out[i] = InvalidChoice) /\ ~interrupted) =>
       pc = "variant" /\ exit_status = <<>> /\ last_input \notin DOMAIN ValidMenu
  /\ pc = "METHOD" => last_input \in DOMAIN ValidMenu
  /\ ((\E i \in 1..Len(out) : out[i] = Nag) /\ ~interrupted) =>
       /\ out = <<Nag>>
       /\ pc \in YesNoPcs
       /\ exit_status = <<>>
       /\ last_input \in InvalidYesNo
       /\ pc \notin DOMAIN config
  /\ (pc \in YesNoNext /\ out # <<Nag>>) => last_input \notin InvalidYesNo
  /\ (pc \in YesNoPcs /\ last_input \in InvalidYesNo) => out = <<Nag>>

\* The warnings of the selection in what the step printed.
SelectionWarnings ==
  Len(PrintedWith(out, "Invalid index: (skipped)"))
    + Len(PrintedWith(out, "Invalid input: (skipped)"))

TypedSelections ==
  {[line |-> JoinSp(ts), tokens |-> ts] : ts \in TokenSeqs}
    \cup {[line |-> <<" ", " ">>, tokens |-> <<>>],
           [line |-> <<" ", "2", "\t", " ", "1", " ">>, tokens |-> << <<"2">>, <<"1">> >>],
           [line |-> <<"a", "l">>, tokens |-> << <<"a", "l">> >>],
           [line |-> <<"1", "_", "0">>, tokens |-> << <<"1", "_", "0">> >>],
           [line |-> <<"-", "1">>, tokens |-> << <<"-", "1">> >>],
           [line |-> <<"a", "l", "l", " ", "1">>,
            tokens |-> << <<"a", "l", "l">>, <<"1">> >>]}
IndexOf ==
  TokenIndex @@ (<<"a", "l">> :> <<>>) @@ (<<"a", "l", "l">> :> <<>>)
    @@ (<<"1", "_", "0">> :> <<10>>) @@ (<<"-", "1">> :> <<-1>>)
Names(t) ==
  IndexOf[t] # <<>> /\ 1 <= IndexOf[t][1] /\ IndexOf[t][1] <= Cardinality(Artifacts)
RECURSIVE Kept(_)
Kept(ts) ==
  IF ts = <<>> THEN <<>>
  ELSE (IF Names(Head(ts)) THEN <<ArtifactAt(IndexOf[Head(ts)][1])>> ELSE <<>>)
         \o Kept(Tail(ts))
\* The warning the selection owes to each token that names no artifact.
RECURSIVE WarningsOwed(_)
WarningsOwed(ts) ==
  IF ts = <<>> THEN <<>>
  ELSE (IF Names(Head(ts)) THEN <<>>
        ELSE IF IndexOf[Head(ts)] = <<>>
          THEN <<print_warning("Invalid input: (skipped)", Head(ts))>>
        ELSE <<print_warning("Invalid index: (skipped)", IntStr(IndexOf[Head(ts)][1]))>>)
         \o WarningsOwed(Tail(ts))
IsWarning(m) == m.sev = "WARNING"

PairsInOrder ==
  \A i \in 1..Len(writes) :
    i <= 2 * Len(selected_files) =>
      LET f == selected_files[(i + 1) \div 2] IN
        IF i % 2 = 1
          THEN /\ EndsWith(writes[i].path, S_dot_inp)
               /\ writes[i].lines = Written(InpTemplate(f, config), config)
               /\ writes[i].lines[Len(writes[i].lines)].args[3] = f
          ELSE /\ EndsWith(writes[i].path, S_dot_sh)
               /\ writes[i].lines = Written(SbatchTemplate(f, config), config)
               /\ BaseName(writes[i].path) =
                    S_run_ \o SubSeq(BaseName(writes[i - 1].path), 1,
                                     Len(BaseName(writes[i - 1].path)) - 4) \o S_dot_sh
IsSubmitAll(w) == BaseName(w.path) = S_submit_all_jobs
RenderOrder ==
  /\ writes # <<>> => pc \in WritingPcs \cup {"exited"}
  /\ writes # <<>> => dirs # {}
  /\ pc \in WritingPcs =>
       /\ PairsInOrder
       /\ pc = "render_inp" => Len(writes) = 2 * (idx - 1) /\ idx <= Len(selected_files)
       /\ pc = "render_sbatch" => Len(writes) = 2 * idx - 1
       /\ pc = "submit_all" => Len(writes) = 2 * Len(selected_files)
       /\ pc = "summary" =>
            /\ Len(writes) = 2 * Len(selected_files) + 1
            /\ IsSubmitAll(writes[Len(writes)])
  /\ \A i \in 1..Len(writes) :
       IsSubmitAll(writes[i]) => i = Len(writes) /\ i % 2 = 1 /\ pc \in {"summary", "exited"}
  /\ (pc = "exited" /\ exit_status = <<0>>) =>
       writes # <<>> /\ IsSubmitAll(writes[Len(writes)])

\* C10: no file is written before the last prompt is answered; the two
\* renderers run once for each selected file, in the order of the selection,
\* the input file before its job script, all from the same config, which no
\* renderer changes; the collective script is written once, after every pair.
C10_RenderOrder ==
  /\ []RenderOrder
  /\ [][(pc \in RenderPcs /\ pc' \in RenderPcs) => config' = config]_vars
  /\ [][writes' # writes => (pc \in WritingPcs /\ Len(writes') = Len(writes) + 1
                              /\ SubSeq(writes', 1, Len(writes)) = writes)]_vars

C10_Witness ==
  /\ pc = "summary"
  /\ Len(writes) = 5
  /\ selected_files[1] # selected_files[2]
  /\ selected_files[1] = writes[1].lines[Len(writes[1].lines)].args[3]
  /\ selected_files[2] = writes[3].lines[Len(writes[3].lines)].args[3]
  /\ StrLess(selected_files[2], selected_files[1])


\* The matched names that are executable regular files, the invocations of
\* sbatch that ended with status 0, and the identifier each answer of sbatch
\* carries.
Runnable ==
  {n \in DOMAIN cwd : StartsWith(n, S_run_) /\ EndsWith(n, S_dot_sh) /\ cwd[n] = "executable"}
Succeeded == {i \in 1..Len(calls) : calls[i].status = 0}
IdIn ==
  (S_Submitted \o <<"4", "2">> :> <<"4", "2">>)
    @@ (<<"Q", "u", "e", "u", "e", "d", " ", "7">> :> <<>>)
    @@ (<<"w", "a", "r", "n", "\n">> \o S_Submitted \o <<"7", " ", "o", "k", "\n">>
          \o S_Submitted \o <<"8">> :> <<"7", "\n", "8">>)
\* The number of successful invocations among the first k.
SucceededUpTo(k) == Cardinality({i \in Succeeded : i <= k})

\* C11: sbatch is invoked once for each matched name that is an executable
\* regular file and for no other name; job_ids holds one entry for each
\* invocation that ended with status 0, in order, the entry being empty when
\* the answer lacks "Submitted batch job <digits>"; and the summary prints
\* their number as "Total jobs submitted".
C11_SubmitLoop ==
  /\ \A i \in 1..Len(calls) : calls[i].script \in Runnable
  /\ \A i, j \in 1..Len(calls) : calls[i].script = calls[j].script => i = j
  /\ spc \in {"summary", "done"} => {calls[i].script : i \in 1..Len(calls)} = Runnable
  /\ Len(job_ids) = Cardinality(Succeeded)
  /\ \A i \in Succeeded : job_ids[SucceededUpTo(i)] = IdIn[calls[i].output]
  /\ spc = "done" =>
       /\ sstatus = <<0>>
       /\ Cardinality({k \in 1..Len(sout) : sout[k].text = "Total jobs submitted:"}) = 1
       /\ \A k \in 1..Len(sout) :
            sout[k].text = "Total jobs submitted:" => sout[k].n = Cardinality(Succeeded)

C11_Witness ==
  /\ spc = "done"
  /\ Len(calls) = 2
  /\ calls[1].status = 0
  /\ calls[1].output = <<"Q", "u", "e", "u", "e", "d", " ", "7">>
  /\ calls[2].status = 1
  /\ job_ids = << <<>> >>
  /\ \E k \in 1..Len(sout) : sout[k].text = "Total jobs submitted:" /\ sout[k].n = 1

=============================================================================
